---- MODULE Spec2Model ----
\* A model of go-cache: a generic in-memory key-value cache whose entries carry
\* an absolute expiry, with lazy expiry on access and a background sweeper.
\*
\* The methods of Cache are pure operators on the map; these specifications
\* run them:
\*   Spec        every method (Lock; body; deferred Unlock) and every sweeper
\*               tick is one atomic step, which the mutex makes it;
\*   SpecLock    caller goroutines and the sweeper goroutine with the mutex
\*               explicit (invoke, c.mu.Lock(), body and deferred Unlock);
\*   SpecRelock  as SpecLock, with the Cache of src/utils.go, whose Add and
\*               Replace call the locking Set while they hold the mutex.
\*   SpecSGR     as SpecLock, the callers calling Set, Get and Remove only;
\*   SpecStmt    as SpecLock, a body being two steps where it reads the map
\*               into locals before it acts on them;
\*   SpecTwin    as Spec, every call made also on a cache that is never swept;
\*   SpecAdds    as SpecLock, each caller calling Add once, after Sets have
\*               filled the store;
\*   SpecFair    as SpecLock, the callers calling Set and Get, with fairness:
\*               time passes, ticks keep coming, whoever holds the mutex runs
\*               on, and the sweeper is not starved of the mutex.
\* time.Now() is the variable now, and the clock may move between two reads
\* a method makes of it: Add and Replace read it in isExpired and again in
\* set, and the scan of RemoveExpired and of the sweeper reads it once for
\* each entry.
\* The operators take every reading as an argument; a step that runs such a
\* method takes its first reading at now and leaves the clock at its last.
EXTENDS Integers, FiniteSets, Sequences, TLC

VARIABLES items, now, last, lastSet, mu, pc, call, local, atomic, wrote, unswept,
          ret

vars == <<items, now, last, lastSet, mu, pc, call, local, atomic, wrote, unswept,
          ret>>

\* ---------------------------------------------------------------- bounds

\* The clock runs from 0 to MaxTime.
MaxTime == 3

Keys == {"a", "b"}
Values == {1, 2}
TTLs == {-1, 0, 1, 2}

\* The zero value of V (V = int): what a lookup of a missing key yields.
Zero == 0

\* The goroutines of SpecLock and SpecRelock: the callers, and the sweeper that
\* New starts. mu holds the goroutine inside c.mu.Lock() .. Unlock(), 0 if none.
Callers == {1, 2}
Sweeper == 3
Threads == Callers \cup {Sweeper}

\* What the callers of SpecLock and SpecRelock pass.
LockValues == {1}
LockTTLs == {0, 1}

NoKey == "-"
NoCall == [op |-> "none", key |-> NoKey, val |-> 0, ttl |-> 0, outer |-> "none"]
NoErr == [kind |-> "nil", key |-> NoKey]
NoSet == [at |-> -1, ttl |-> 0]
NoLocal == [value |-> Zero, expiry |-> 0, found |-> FALSE, keys |-> {}]
NoWrite == [set |-> FALSE, val |-> Zero, due |-> 0, removed |-> FALSE]
NoRet == [called |-> FALSE, free |-> FALSE, done |-> FALSE, key |-> NoKey,
          val |-> Zero, ttl |-> 0, at |-> 0, err |-> NoErr]

\* ------------------------------------------------------- item and helpers

\* The comparison with its operands exchanged.
isExpired_swapped(i, t) == i.expiry > t

\* time.Now().After(i.expiry), with t the value time.Now() returns.
isExpired(i, t) == t > i.expiry

\* set with the expiry at time.Now(), the ttl dropped.
set_dropsTtl(m, key, data, ttl, t) ==
    [k \in (DOMAIN m) \cup {key} |->
        IF k = key THEN [value |-> data, expiry |-> t] ELSE m[k]]

\* c.items[key] = item{value: data, expiry: time.Now().Add(ttl)}
set(m, key, data, ttl, t) ==
    [k \in (DOMAIN m) \cup {key} |->
        IF k = key THEN [value |-> data, expiry |-> t + ttl] ELSE m[k]]

\* delete(c.items, key)
delete(m, key) == [k \in (DOMAIN m) \ {key} |-> m[k]]

\* i, found := c.items[key]: a missing key yields the zero item.
lookup(m, key) ==
    IF key \in DOMAIN m THEN [value |-> m[key].value, found |-> TRUE]
    ELSE [value |-> Zero, found |-> FALSE]

\* ------------------------------------------------------ the method bodies
\* Each is the body run under the mutex on the map m at clock reading t and
\* yields the map it leaves and what it returns.

\* Set that leaves an entry that is already there.
Set_ifAbsent(m, key, data, ttl, t) ==
    [items |-> IF key \in DOMAIN m THEN m ELSE set(m, key, data, ttl, t)]

Set(m, key, data, ttl, t) == [items |-> set(m, key, data, ttl, t)]

\* Add without the return in the branch of a live entry.
Add_fallsThrough(m, key, data, ttl, t, t2) ==
    [items |-> set(IF key \in DOMAIN m /\ isExpired(m[key], t)
                   THEN delete(m, key) ELSE m, key, data, ttl, t2),
     err |-> NoErr]

\* t is what time.Now() returns in item.isExpired(), t2 what it returns in
\* c.set.
Add(m, key, data, ttl, t, t2) ==
    IF key \in DOMAIN m /\ ~isExpired(m[key], t)
    THEN [items |-> m, err |-> [kind |-> "already exists", key |-> key]]
    ELSE [items |-> set(delete(m, key), key, data, ttl, t2), err |-> NoErr]

\* t is what time.Now() returns in i.isExpired(), t2 what it returns in c.set.
Replace(m, key, data, ttl, t, t2) ==
    IF key \in DOMAIN m
    THEN IF isExpired(m[key], t)
         THEN [items |-> delete(m, key),
               err |-> [kind |-> "is expired", key |-> key]]
         ELSE [items |-> set(m, key, data, ttl, t2), err |-> NoErr]
    ELSE [items |-> m, err |-> [kind |-> "doesn't exist", key |-> key]]

\* Get with a sliding expiration: a hit moves the expiry one tick past now.
Get_sliding(m, key, t) ==
    IF key \notin DOMAIN m
    THEN [items |-> m, value |-> lookup(m, key).value, found |-> FALSE]
    ELSE IF isExpired(m[key], t)
         THEN [items |-> delete(m, key), value |-> m[key].value, found |-> FALSE]
         ELSE [items |-> set(m, key, m[key].value, 1, t),
               value |-> m[key].value, found |-> TRUE]

Get(m, key, t) ==
    IF key \notin DOMAIN m
    THEN [items |-> m, value |-> lookup(m, key).value, found |-> FALSE]
    ELSE IF isExpired(m[key], t)
         THEN [items |-> delete(m, key), value |-> m[key].value, found |-> FALSE]
         ELSE [items |-> m, value |-> m[key].value, found |-> TRUE]

Pop(m, key, t) ==
    IF key \notin DOMAIN m
    THEN [items |-> m, value |-> lookup(m, key).value, found |-> FALSE]
    ELSE [items |-> delete(m, key), value |-> m[key].value,
          found |-> ~isExpired(m[key], t)]

\* Remove with clear(c.items) in place of the delete of one key.
Remove_clearsAll(m, key) == [items |-> [k \in {} |-> m[k]]]

Remove(m, key) == [items |-> delete(m, key)]

\* The keys RemoveExpired and the sweeper collect before deleting them. The
\* loop calls isExpired, and with it time.Now(), once for each entry: ts[k] is
\* what time.Now() returns for the entry of key k.
expiredKeys(m, ts) == {k \in DOMAIN m : isExpired(m[k], ts[k])}

RemoveExpired(m, ts) == [items |-> [k \in (DOMAIN m) \ expiredKeys(m, ts) |-> m[k]]]

\* Clear that leaves the map alone.
Clear_noop(m) == [items |-> m]

Clear(m) == [items |-> [k \in {} |-> m[k]]]

\* A tick that deletes the entries that are not expired.
sweep_inverted(m, ts) == [items |-> [k \in expiredKeys(m, ts) |-> m[k]]]

\* A tick that also deletes the entries that expire at the next clock value.
sweep_eager(m, ts) ==
    [items |-> [k \in {j \in DOMAIN m : m[j].expiry > ts[j] + 1} |-> m[k]]]

\* A tick that collects the expired keys and deletes none of them.
sweep_none(m, ts) == [items |-> m]

\* One tick of the goroutine New starts.
sweep(m, ts) == [items |-> [k \in (DOMAIN m) \ expiredKeys(m, ts) |-> m[k]]]

\* ------------------------------------------------------------- the state

\* What the caller of the operation that returned last passed and got back.
Result(op, key, val, ttl, value, found, err) ==
    [op |-> op, key |-> key, val |-> val, ttl |-> ttl, at |-> now,
     value |-> value, found |-> found, err |-> err]

Init ==
    /\ items = [k \in {} |-> [value |-> Zero, expiry |-> 0]]
    /\ now = 0
    /\ last = [op |-> "New", key |-> NoKey, val |-> Zero, ttl |-> 0, at |-> 0,
               value |-> Zero, found |-> FALSE, err |-> NoErr]
    /\ lastSet = [k \in Keys |-> NoSet]
    /\ mu = 0
    /\ pc = [t \in Threads |-> IF t = Sweeper THEN "tick" ELSE "idle"]
    /\ call = [t \in Threads |-> NoCall]
    /\ local = [t \in Threads |-> NoLocal]
    /\ atomic = items
    /\ wrote = [k \in Keys |-> NoWrite]
    /\ unswept = [items |-> items, value |-> Zero, found |-> FALSE, err |-> NoErr]
    /\ ret = [t \in Callers |-> NoRet]

\* The variables that only SpecStmt, SpecSGR, SpecTwin and SpecAdds use stay
\* as Init leaves them.
Plain == UNCHANGED <<local, atomic, wrote, unswept, ret>>

\* The clock moves on.
Advance ==
    /\ now < MaxTime
    /\ now' = now + 1
    /\ UNCHANGED <<items, last, lastSet, mu, pc, call>>

\* What time.Now() can return to a method that is running: now or later.
Later == now .. MaxTime

\* What time.Now() can return in the c.set of Add or Replace, when the method
\* has read the clock before it: Add gets there after isExpired, reading now,
\* said yes of the entry of the key, Replace after it said no.
SecondReadings(op, m, key) ==
    IF key \in DOMAIN m /\ (isExpired(m[key], now) <=> op = "Add")
    THEN Later ELSE {now}

\* What time.Now() can return for each entry in a scan of the map m. The map
\* is ranged over in any order, so any entry can get any of the readings.
ScanReadings(m) ==
    {ts \in [Keys -> Later] : \A k \in Keys \ DOMAIN m : ts[k] = now}

\* The last reading of a scan of the map m: the clock when the scan ends.
Latest(m, ts) ==
    LET rs == {now} \cup {ts[k] : k \in DOMAIN m} IN
    CHOOSE t \in rs : \A u \in rs : u <= t

\* --------------------------------------------- Spec: the atomic operations

DoSet(key, data, ttl) ==
    /\ items' = Set(items, key, data, ttl, now).items
    /\ last' = Result("Set", key, data, ttl, Zero, FALSE, NoErr)
    /\ lastSet' = [lastSet EXCEPT ![key] = [at |-> now, ttl |-> ttl]]
    /\ UNCHANGED <<now, mu, pc, call>>

DoAdd(key, data, ttl) ==
    \E t2 \in SecondReadings("Add", items, key) :
        LET r == Add(items, key, data, ttl, now, t2) IN
        /\ items' = r.items
        /\ now' = t2
        /\ last' = [Result("Add", key, data, ttl, Zero, FALSE, r.err)
                        EXCEPT !.at = t2]
        /\ lastSet' = IF r.err = NoErr THEN [lastSet EXCEPT ![key] = NoSet] ELSE lastSet
        /\ UNCHANGED <<mu, pc, call>>

DoReplace(key, data, ttl) ==
    \E t2 \in SecondReadings("Replace", items, key) :
        LET r == Replace(items, key, data, ttl, now, t2) IN
        /\ items' = r.items
        /\ now' = t2
        /\ last' = [Result("Replace", key, data, ttl, Zero, FALSE, r.err)
                        EXCEPT !.at = t2]
        /\ lastSet' = IF r.err = NoErr THEN [lastSet EXCEPT ![key] = NoSet] ELSE lastSet
        /\ UNCHANGED <<mu, pc, call>>

DoGet(key) ==
    LET r == Get(items, key, now) IN
    /\ items' = r.items
    /\ last' = Result("Get", key, Zero, 0, r.value, r.found, NoErr)
    /\ UNCHANGED <<now, lastSet, mu, pc, call>>

DoPop(key) ==
    LET r == Pop(items, key, now) IN
    /\ items' = r.items
    /\ last' = Result("Pop", key, Zero, 0, r.value, r.found, NoErr)
    /\ UNCHANGED <<now, lastSet, mu, pc, call>>

DoRemove(key) ==
    /\ items' = Remove(items, key).items
    /\ last' = Result("Remove", key, Zero, 0, Zero, FALSE, NoErr)
    /\ UNCHANGED <<now, lastSet, mu, pc, call>>

DoRemoveExpired ==
    \E ts \in ScanReadings(items) :
        /\ items' = RemoveExpired(items, ts).items
        /\ now' = Latest(items, ts)
        /\ last' = [Result("RemoveExpired", NoKey, Zero, 0, Zero, FALSE, NoErr)
                        EXCEPT !.at = Latest(items, ts)]
        /\ UNCHANGED <<lastSet, mu, pc, call>>

DoClear ==
    /\ items' = Clear(items).items
    /\ last' = Result("Clear", NoKey, Zero, 0, Zero, FALSE, NoErr)
    /\ UNCHANGED <<now, lastSet, mu, pc, call>>

\* A sweeper tick returns nothing to any caller: last stays.
SweepTick ==
    \E ts \in ScanReadings(items) :
        /\ items' = sweep(items, ts).items
        /\ now' = Latest(items, ts)
        /\ UNCHANGED <<last, lastSet, mu, pc, call>>

OpSet == \E k \in Keys, v \in Values, d \in TTLs : DoSet(k, v, d)
OpAdd == \E k \in Keys, v \in Values, d \in TTLs : DoAdd(k, v, d)
OpReplace == \E k \in Keys, v \in Values, d \in TTLs : DoReplace(k, v, d)
OpGet == \E k \in Keys : DoGet(k)
OpPop == \E k \in Keys : DoPop(k)
OpRemove == \E k \in Keys : DoRemove(k)

Next ==
    \/ Advance /\ Plain
    \/ OpSet /\ Plain
    \/ OpAdd /\ Plain
    \/ OpReplace /\ Plain
    \/ OpGet /\ Plain
    \/ OpPop /\ Plain
    \/ OpRemove /\ Plain
    \/ DoRemoveExpired /\ Plain
    \/ DoClear /\ Plain
    \/ SweepTick /\ Plain

Spec == Init /\ [][Next]_vars

\* ------------------------------------ SpecLock: goroutines and the mutex

Call(op, key, val, ttl) ==
    [op |-> op, key |-> key, val |-> val, ttl |-> ttl, outer |-> "none"]

Calls ==
    {Call(op, k, v, d) : op \in {"Set", "Add", "Replace"}, k \in Keys,
                         v \in LockValues, d \in LockTTLs}
    \cup {Call(op, k, Zero, 0) : op \in {"Get", "Pop", "Remove"}, k \in Keys}
    \cup {Call(op, NoKey, Zero, 0) : op \in {"RemoveExpired", "Clear"}}

\* A caller goroutine calls a method of the cache.
Invoke(t) ==
    /\ t \in Callers
    /\ pc[t] = "idle"
    /\ \E c \in Calls : call' = [call EXCEPT ![t] = c]
    /\ pc' = [pc EXCEPT ![t] = "lock"]
    /\ UNCHANGED <<items, now, last, lastSet, mu>>

\* time.Tick delivers a tick to the sweeper goroutine.
Tick ==
    /\ pc[Sweeper] = "tick"
    /\ pc' = [pc EXCEPT ![Sweeper] = "lock"]
    /\ UNCHANGED <<items, now, last, lastSet, mu, call>>

\* Lock that does not wait for the mutex to be free.
Lock_noWait(t) ==
    /\ pc[t] = "lock"
    /\ mu' = t
    /\ pc' = [pc EXCEPT ![t] = "body"]
    /\ UNCHANGED <<items, now, last, lastSet, call>>

\* c.mu.Lock(): blocks while another goroutine, or this one, holds the mutex.
Lock(t) ==
    /\ pc[t] = "lock"
    /\ mu = 0
    /\ mu' = t
    /\ pc' = [pc EXCEPT ![t] = "body"]
    /\ UNCHANGED <<items, now, last, lastSet, call>>

\* What time.Now() returns to a call: in its first read, in its second (the
\* c.set of Add and of Replace) and, in a scan, for the entry of each key.
Once(t) == [first |-> t, second |-> t, each |-> [k \in Keys |-> t]]

\* The readings the call c can get on the map m, the first one being now.
Readings(c, m) ==
    IF c.op \in {"Add", "Replace"}
    THEN {[Once(now) EXCEPT !.second = t2] : t2 \in SecondReadings(c.op, m, c.key)}
    ELSE IF c.op = "RemoveExpired"
         THEN {[Once(now) EXCEPT !.each = ts] : ts \in ScanReadings(m)}
         ELSE {Once(now)}

\* The last reading of the call c: the clock when its body ends.
Ends(c, m, rd) ==
    IF c.op \in {"Add", "Replace"} THEN rd.second
    ELSE IF c.op = "RemoveExpired" THEN Latest(m, rd.each) ELSE rd.first

\* What the body of the method of call c leaves and returns, with the readings
\* rd of the clock (src/unnamed/part_000).
Body(c, m, rd) ==
    CASE c.op = "Set" ->
            [items |-> Set(m, c.key, c.val, c.ttl, rd.first).items,
             value |-> Zero, found |-> FALSE, err |-> NoErr]
      [] c.op = "Add" ->
            [items |-> Add(m, c.key, c.val, c.ttl, rd.first, rd.second).items,
             value |-> Zero, found |-> FALSE,
             err |-> Add(m, c.key, c.val, c.ttl, rd.first, rd.second).err]
      [] c.op = "Replace" ->
            [items |-> Replace(m, c.key, c.val, c.ttl, rd.first, rd.second).items,
             value |-> Zero, found |-> FALSE,
             err |-> Replace(m, c.key, c.val, c.ttl, rd.first, rd.second).err]
      [] c.op = "Get" ->
            [items |-> Get(m, c.key, rd.first).items, value |-> Get(m, c.key, rd.first).value,
             found |-> Get(m, c.key, rd.first).found, err |-> NoErr]
      [] c.op = "Pop" ->
            [items |-> Pop(m, c.key, rd.first).items, value |-> Pop(m, c.key, rd.first).value,
             found |-> Pop(m, c.key, rd.first).found, err |-> NoErr]
      [] c.op = "Remove" ->
            [items |-> Remove(m, c.key).items,
             value |-> Zero, found |-> FALSE, err |-> NoErr]
      [] c.op = "RemoveExpired" ->
            [items |-> RemoveExpired(m, rd.each).items,
             value |-> Zero, found |-> FALSE, err |-> NoErr]
      [] c.op = "Clear" ->
            [items |-> Clear(m).items,
             value |-> Zero, found |-> FALSE, err |-> NoErr]

\* The method returns: its result goes to the caller, the deferred Unlock runs.
Return(t, r, at) ==
    /\ items' = r.items
    /\ now' = at
    /\ last' = [Result(call[t].op, call[t].key, call[t].val, call[t].ttl,
                       r.value, r.found, r.err) EXCEPT !.at = at]
    /\ mu' = 0
    /\ pc' = [pc EXCEPT ![t] = "idle"]
    /\ call' = [call EXCEPT ![t] = NoCall]
    /\ UNCHANGED lastSet

\* A caller runs the body of its method under the mutex and returns.
Run(t) ==
    /\ t \in Callers
    /\ pc[t] = "body"
    /\ \E rd \in Readings(call[t], items) :
        Return(t, Body(call[t], items, rd), Ends(call[t], items, rd))

\* The sweeper runs one pass under the mutex, unlocks and waits for the next tick.
Sweep ==
    /\ pc[Sweeper] = "body"
    /\ \E ts \in ScanReadings(items) :
        /\ items' = sweep(items, ts).items
        /\ now' = Latest(items, ts)
    /\ mu' = 0
    /\ pc' = [pc EXCEPT ![Sweeper] = "tick"]
    /\ UNCHANGED <<last, lastSet, call>>

NextLock ==
    \/ Advance /\ Plain
    \/ \E t \in Callers : Invoke(t) /\ Plain
    \/ Tick /\ Plain
    \/ \E t \in Threads : Lock(t) /\ Plain
    \/ \E t \in Callers : Run(t) /\ Plain
    \/ Sweep /\ Plain

SpecLock == Init /\ [][NextLock]_vars

\* ------------------- SpecRelock: the Cache of src/utils.go (lines 28-217)
\* Its Add and Replace do not write the map themselves: holding c.mu they call
\* the exported Set, whose first statement is c.mu.Lock().

\* Add up to its call of c.Set, or to its return of the error.
Add_utils(m, key, t) ==
    IF key \in DOMAIN m /\ ~isExpired(m[key], t)
    THEN [items |-> m, calls |-> FALSE,
          err |-> [kind |-> "already exists", key |-> key]]
    ELSE [items |-> delete(m, key), calls |-> TRUE, err |-> NoErr]

\* Replace up to its call of c.Set, or to its return of an error.
Replace_utils(m, key, t) ==
    IF key \in DOMAIN m
    THEN IF isExpired(m[key], t)
         THEN [items |-> delete(m, key), calls |-> FALSE,
               err |-> [kind |-> "is expired", key |-> key]]
         ELSE [items |-> m, calls |-> TRUE, err |-> NoErr]
    ELSE [items |-> m, calls |-> FALSE,
          err |-> [kind |-> "doesn't exist", key |-> key]]

Prefix_utils(c, m, t) ==
    IF c.op = "Add" THEN Add_utils(m, c.key, t) ELSE Replace_utils(m, c.key, t)

\* Add or Replace, inside its critical section, enters c.Set(key, data, ttl):
\* the goroutine is at Set's c.mu.Lock() and still holds the mutex.
EnterSet(t, r) ==
    /\ items' = r.items
    /\ pc' = [pc EXCEPT ![t] = "lock"]
    /\ call' = [call EXCEPT ![t] = [op |-> "Set", key |-> call[t].key,
                                     val |-> call[t].val, ttl |-> call[t].ttl,
                                     outer |-> call[t].op]]
    /\ UNCHANGED <<now, last, lastSet, mu>>

\* The inner Set returns to Add or Replace, which returns nil: the caller gets
\* the outer method's result. Set's deferred Unlock has released the mutex, and
\* the outer method's deferred Unlock finds it unlocked, which is fatal.
ReturnOuter(t, r) ==
    /\ items' = r.items
    /\ last' = Result(call[t].outer, call[t].key, call[t].val, call[t].ttl,
                      Zero, FALSE, NoErr)
    /\ mu' = 0
    /\ pc' = [pc EXCEPT ![t] = "fatal"]
    /\ call' = [call EXCEPT ![t] = NoCall]
    /\ UNCHANGED <<now, lastSet>>

Run_utils(t) ==
    /\ t \in Callers
    /\ pc[t] = "body"
    /\ IF call[t].op \in {"Add", "Replace"}
       THEN IF Prefix_utils(call[t], items, now).calls
            THEN EnterSet(t, Prefix_utils(call[t], items, now))
            ELSE Return(t, [items |-> Prefix_utils(call[t], items, now).items,
                            value |-> Zero, found |-> FALSE,
                            err |-> Prefix_utils(call[t], items, now).err], now)
       ELSE IF call[t].outer = "none"
            THEN \E rd \in Readings(call[t], items) :
                    Return(t, Body(call[t], items, rd), Ends(call[t], items, rd))
            ELSE ReturnOuter(t, Body(call[t], items, Once(now)))

\* A fatal error ends the process: no goroutine runs on.
Running == \A t \in Threads : pc[t] # "fatal"

NextRelock ==
    \/ Advance /\ Plain
    \/ \E t \in Callers : Running /\ Invoke(t) /\ Plain
    \/ Running /\ Tick /\ Plain
    \/ \E t \in Threads : Running /\ Lock(t) /\ Plain
    \/ \E t \in Callers : Running /\ Run_utils(t) /\ Plain
    \/ Running /\ Sweep /\ Plain

SpecRelock == Init /\ [][NextRelock]_vars

\* ------- SpecSGR: concurrent Set, Get and Remove (cache_test.go:175-223)
\* The goroutines of SpecLock, the callers calling Set, Get and Remove only.
\* wrote[k] records, from the arguments of the calls alone, what the last Set
\* of k to run passed (its value, and now + ttl when it ran) and whether any
\* caller has called Remove(k).

SGRTTLs == {1, 2}

CallsSGR ==
    {Call("Set", k, v, d) : k \in Keys, v \in Values, d \in SGRTTLs}
    \cup {Call(op, k, Zero, 0) : op \in {"Get", "Remove"}, k \in Keys}

InvokeSGR(t) ==
    /\ t \in Callers
    /\ pc[t] = "idle"
    /\ \E c \in CallsSGR :
        /\ call' = [call EXCEPT ![t] = c]
        /\ wrote' = IF c.op = "Remove"
                    THEN [wrote EXCEPT ![c.key].removed = TRUE]
                    ELSE wrote
    /\ pc' = [pc EXCEPT ![t] = "lock"]
    /\ UNCHANGED <<items, now, last, lastSet, mu>>

\* A caller runs the body of its method under the mutex and returns; as in the
\* test, it drops what Get returns.
RunSGR(t) ==
    /\ t \in Callers
    /\ pc[t] = "body"
    /\ items' = Body(call[t], items, Once(now)).items
    /\ mu' = 0
    /\ pc' = [pc EXCEPT ![t] = "idle"]
    /\ call' = [call EXCEPT ![t] = NoCall]
    /\ UNCHANGED <<now, last, lastSet>>
    /\ wrote' = IF call[t].op = "Set"
                THEN [wrote EXCEPT ![call[t].key] =
                        [set |-> TRUE, val |-> call[t].val,
                         due |-> now + call[t].ttl, removed |-> @.removed]]
                ELSE wrote

NextSGR ==
    \/ Advance /\ Plain
    \/ \E t \in Callers : InvokeSGR(t) /\ UNCHANGED <<local, atomic, unswept, ret>>
    \/ Tick /\ Plain
    \/ \E t \in Threads : Lock(t) /\ Plain
    \/ \E t \in Callers : RunSGR(t) /\ UNCHANGED <<local, atomic, unswept, ret>>
    \/ Sweep /\ Plain

SpecSGR == Init /\ [][NextSGR]_vars

\* ------------- SpecStmt: the bodies statement by statement, under the mutex
\* The goroutines of SpecLock, a body being two steps where it reads the map
\* into locals before it acts on them: Add, Replace, Get and Pop copy
\* c.items[key] into i, found; RemoveExpired and the sweeper collect
\* expiredKeys. atomic is the map of a cache that runs each method whole, as
\* the operators Body and sweep do, at the step where the method reads the
\* clock: the scan of RemoveExpired and of the sweeper, the last step of the
\* others.

StmtTTLs == {1}

CallsStmt ==
    {Call(op, k, v, d) : op \in {"Set", "Add", "Replace"}, k \in Keys,
                         v \in LockValues, d \in StmtTTLs}
    \cup {Call(op, k, Zero, 0) : op \in {"Get", "Pop", "Remove"}, k \in Keys}
    \cup {Call(op, NoKey, Zero, 0) : op \in {"RemoveExpired", "Clear"}}

\* A caller goroutine calls a method of the cache.
InvokeStmt(t) ==
    /\ t \in Callers
    /\ pc[t] = "idle"
    /\ \E c \in CallsStmt : call' = [call EXCEPT ![t] = c]
    /\ pc' = [pc EXCEPT ![t] = "lock"]
    /\ UNCHANGED <<items, now, last, lastSet, mu>>

Reads(c) == c.op \in {"Add", "Replace", "Get", "Pop", "RemoveExpired"}

\* What the first statements of the body of call c leave in its locals.
ReadOf(c, m, rd) ==
    IF c.op = "RemoveExpired"
    THEN [NoLocal EXCEPT !.keys = expiredKeys(m, rd.each)]
    ELSE IF c.key \in DOMAIN m
         THEN [value |-> m[c.key].value, expiry |-> m[c.key].expiry,
               found |-> TRUE, keys |-> {}]
         ELSE NoLocal

\* What the rest of the body of call c, with the locals l, leaves and returns.
ActOf(c, l, m, rd) ==
    CASE c.op = "Add" ->
            IF l.found /\ ~isExpired(l, rd.first)
            THEN [items |-> m, value |-> Zero, found |-> FALSE,
                  err |-> [kind |-> "already exists", key |-> c.key]]
            ELSE [items |-> set(IF l.found THEN delete(m, c.key) ELSE m,
                                c.key, c.val, c.ttl, rd.second),
                  value |-> Zero, found |-> FALSE, err |-> NoErr]
      [] c.op = "Replace" ->
            IF l.found
            THEN IF isExpired(l, rd.first)
                 THEN [items |-> delete(m, c.key), value |-> Zero, found |-> FALSE,
                       err |-> [kind |-> "is expired", key |-> c.key]]
                 ELSE [items |-> set(m, c.key, c.val, c.ttl, rd.second),
                       value |-> Zero, found |-> FALSE, err |-> NoErr]
            ELSE [items |-> m, value |-> Zero, found |-> FALSE,
                  err |-> [kind |-> "doesn't exist", key |-> c.key]]
      [] c.op = "Get" ->
            IF ~l.found
            THEN [items |-> m, value |-> l.value, found |-> FALSE, err |-> NoErr]
            ELSE IF isExpired(l, rd.first)
                 THEN [items |-> delete(m, c.key), value |-> l.value,
                       found |-> FALSE, err |-> NoErr]
                 ELSE [items |-> m, value |-> l.value, found |-> TRUE,
                       err |-> NoErr]
      [] c.op = "Pop" ->
            IF ~l.found
            THEN [items |-> m, value |-> l.value, found |-> FALSE, err |-> NoErr]
            ELSE [items |-> delete(m, c.key), value |-> l.value,
                  found |-> ~isExpired(l, rd.first), err |-> NoErr]
      [] c.op = "RemoveExpired" ->
            [items |-> [k \in (DOMAIN m) \ l.keys |-> m[k]],
             value |-> Zero, found |-> FALSE, err |-> NoErr]
      [] OTHER -> Body(c, m, rd)

\* The readings the rest of the body of call c can get, the first one being
\* now: Add and Replace read the clock again in c.set when the entry is there,
\* Add after isExpired said yes, Replace after it said no.
ActReadings(c, l) ==
    IF c.op \in {"Add", "Replace"} /\ l.found
       /\ (isExpired(l, now) <=> c.op = "Add")
    THEN {[Once(now) EXCEPT !.second = t2] : t2 \in Later}
    ELSE {Once(now)}

\* Read with the critical section ended after it: the rest of the body runs
\* in a critical section of its own.
Read_split(t) ==
    /\ t \in Callers
    /\ pc[t] = "body"
    /\ Reads(call[t])
    /\ \E rd \in (IF call[t].op = "RemoveExpired"
                   THEN Readings(call[t], items) ELSE {Once(now)}) :
        /\ local' = [local EXCEPT ![t] = ReadOf(call[t], items, rd)]
        /\ atomic' = IF call[t].op = "RemoveExpired"
                     THEN Body(call[t], atomic, rd).items ELSE atomic
        /\ now' = IF call[t].op = "RemoveExpired"
                  THEN Latest(items, rd.each) ELSE now
    /\ pc' = [pc EXCEPT ![t] = "act"]
    /\ mu' = 0
    /\ UNCHANGED <<items, last, lastSet, call>>

\* The caller, in its critical section, reads the map into its locals.
Read(t) ==
    /\ t \in Callers
    /\ pc[t] = "body"
    /\ Reads(call[t])
    /\ \E rd \in (IF call[t].op = "RemoveExpired"
                   THEN Readings(call[t], items) ELSE {Once(now)}) :
        /\ local' = [local EXCEPT ![t] = ReadOf(call[t], items, rd)]
        /\ atomic' = IF call[t].op = "RemoveExpired"
                     THEN Body(call[t], atomic, rd).items ELSE atomic
        /\ now' = IF call[t].op = "RemoveExpired"
                  THEN Latest(items, rd.each) ELSE now
    /\ pc' = [pc EXCEPT ![t] = "act"]
    /\ UNCHANGED <<items, last, lastSet, mu, call>>

\* The caller runs the rest of the body (all of it for Set, Remove and Clear)
\* and returns.
Act(t) ==
    /\ t \in Callers
    /\ pc[t] = IF Reads(call[t]) THEN "act" ELSE "body"
    /\ \E rd \in ActReadings(call[t], local[t]) :
        /\ Return(t, ActOf(call[t], local[t], items, rd), rd.second)
        /\ atomic' = IF call[t].op = "RemoveExpired"
                     THEN atomic ELSE Body(call[t], atomic, rd).items
    /\ local' = [local EXCEPT ![t] = NoLocal]

\* The sweeper collects expiredKeys.
SweepRead ==
    /\ pc[Sweeper] = "body"
    /\ \E ts \in ScanReadings(items) :
        /\ local' = [local EXCEPT ![Sweeper] =
                        [NoLocal EXCEPT !.keys = expiredKeys(items, ts)]]
        /\ atomic' = sweep(atomic, ts).items
        /\ now' = Latest(items, ts)
    /\ pc' = [pc EXCEPT ![Sweeper] = "act"]
    /\ UNCHANGED <<items, last, lastSet, mu, call>>

\* The sweeper deletes the keys it collected, unlocks and waits for the next
\* tick.
SweepAct ==
    /\ pc[Sweeper] = "act"
    /\ items' = [k \in (DOMAIN items) \ local[Sweeper].keys |-> items[k]]
    /\ local' = [local EXCEPT ![Sweeper] = NoLocal]
    /\ mu' = 0
    /\ pc' = [pc EXCEPT ![Sweeper] = "tick"]
    /\ UNCHANGED <<now, last, lastSet, call, atomic>>

NextStmt ==
    \/ Advance /\ Plain
    \/ \E t \in Callers : InvokeStmt(t) /\ Plain
    \/ Tick /\ Plain
    \/ \E t \in Threads : Lock(t) /\ Plain
    \/ \E t \in Callers : Read(t) /\ UNCHANGED <<wrote, unswept, ret>>
    \/ \E t \in Callers : Act(t) /\ UNCHANGED <<wrote, unswept, ret>>
    \/ SweepRead /\ UNCHANGED <<wrote, unswept, ret>>
    \/ SweepAct /\ UNCHANGED <<wrote, unswept, ret>>

SpecStmt == Init /\ [][NextStmt]_vars

\* ------------------ SpecTwin: the same calls on a cache that is never swept
\* The operations of Spec, every call but RemoveExpired made also on a second
\* cache whose sweeper never ticks and on which RemoveExpired is never called.
\* unswept holds the map of that cache and what its last call returned. Both
\* caches read the same clock.

\* The twin runs the call that last' records.
Twin == unswept' = Body(last', unswept.items, [Once(now) EXCEPT !.second = now'])

TwinSet == \E k \in Keys, v \in Values, d \in LockTTLs : DoSet(k, v, d)
TwinAdd == \E k \in Keys, v \in Values, d \in LockTTLs : DoAdd(k, v, d)
TwinReplace == \E k \in Keys, v \in Values, d \in LockTTLs : DoReplace(k, v, d)

NextTwin ==
    \/ Advance /\ Plain
    \/ TwinSet /\ Twin /\ UNCHANGED <<local, atomic, wrote, ret>>
    \/ TwinAdd /\ Twin /\ UNCHANGED <<local, atomic, wrote, ret>>
    \/ TwinReplace /\ Twin /\ UNCHANGED <<local, atomic, wrote, ret>>
    \/ OpGet /\ Twin /\ UNCHANGED <<local, atomic, wrote, ret>>
    \/ OpPop /\ Twin /\ UNCHANGED <<local, atomic, wrote, ret>>
    \/ OpRemove /\ Twin /\ UNCHANGED <<local, atomic, wrote, ret>>
    \/ DoClear /\ Twin /\ UNCHANGED <<local, atomic, wrote, ret>>
    \/ DoRemoveExpired /\ Plain
    \/ SweepTick /\ Plain

SpecTwin == Init /\ [][NextTwin]_vars

\* ------------------------------ SpecAdds: callers racing to Add one key
\* The goroutines of SpecLock. While no caller has called yet, Sets fill the
\* store; then each caller calls Add once, with a ttl > 0. ret[t] keeps what
\* caller t passed, whether its key had no entry or one with expiry <= now
\* when it called, and the error Add returned to it and when.

AddTTLs == {1, 2}

NotYet == \A t \in Callers : ~ret[t].called

\* A Set before the callers start: it takes the mutex, which is free, and has
\* released it when it returns.
Fill ==
    /\ NotYet
    /\ mu = 0
    /\ \E k \in Keys, v \in Values, d \in LockTTLs : DoSet(k, v, d)

\* A caller goroutine calls Add.
InvokeAdd(t) ==
    /\ t \in Callers
    /\ pc[t] = "idle"
    /\ ~ret[t].called
    /\ \E k \in Keys, v \in Values, d \in AddTTLs :
        /\ call' = [call EXCEPT ![t] = Call("Add", k, v, d)]
        /\ ret' = [ret EXCEPT ![t] =
                    [called |-> TRUE,
                     free |-> k \notin DOMAIN items \/ items[k].expiry <= now,
                     done |-> FALSE, key |-> k, val |-> v, ttl |-> d,
                     at |-> 0, err |-> NoErr]]
    /\ pc' = [pc EXCEPT ![t] = "lock"]
    /\ UNCHANGED <<items, now, last, lastSet, mu>>

\* The caller runs Add under the mutex and gets its error.
RunAdd(t) ==
    /\ Run(t)
    /\ ret' = [ret EXCEPT ![t].done = TRUE, ![t].at = now', ![t].err = last'.err]

NextAdds ==
    \/ Advance /\ Plain
    \/ Fill /\ Plain
    \/ \E t \in Callers : InvokeAdd(t) /\ UNCHANGED <<local, atomic, wrote, unswept>>
    \/ Tick /\ Plain
    \/ \E t \in Threads : Lock(t) /\ Plain
    \/ \E t \in Callers : RunAdd(t) /\ UNCHANGED <<local, atomic, wrote, unswept>>
    \/ Sweep /\ Plain

SpecAdds == Init /\ [][NextAdds]_vars

\* --------------------- SpecFair: the sweeper under fairness, callers busy
\* The goroutines of SpecLock, the callers calling Set and Get and dropping
\* what Get returns. The clock keeps advancing up to MaxTime, time.Tick keeps
\* delivering ticks, a goroutine inside its critical section runs to its
\* Unlock, and the sweeper, waiting in c.mu.Lock() while callers lock and
\* unlock, gets the mutex in the end (sync.Mutex hands the mutex to a waiter
\* that has waited long: its starvation mode).

CallsFair ==
    {Call("Set", k, v, d) : k \in Keys, v \in LockValues, d \in LockTTLs}
    \cup {Call("Get", k, Zero, 0) : k \in Keys}

\* A caller goroutine calls Set or Get.
InvokeFair(t) ==
    /\ t \in Callers
    /\ pc[t] = "idle"
    /\ \E c \in CallsFair : call' = [call EXCEPT ![t] = c]
    /\ pc' = [pc EXCEPT ![t] = "lock"]
    /\ UNCHANGED <<items, now, last, lastSet, mu>>

\* A caller runs the body of its method under the mutex and returns; what it
\* returns is dropped.
RunFair(t) ==
    /\ t \in Callers
    /\ pc[t] = "body"
    /\ items' = Body(call[t], items, Once(now)).items
    /\ mu' = 0
    /\ pc' = [pc EXCEPT ![t] = "idle"]
    /\ call' = [call EXCEPT ![t] = NoCall]
    /\ UNCHANGED <<now, last, lastSet>>

NextFair ==
    \/ Advance /\ Plain
    \/ \E t \in Callers : InvokeFair(t) /\ Plain
    \/ Tick /\ Plain
    \/ \E t \in Threads : Lock(t) /\ Plain
    \/ \E t \in Callers : RunFair(t) /\ Plain
    \/ Sweep /\ Plain

Fairness ==
    /\ WF_vars(Advance /\ Plain)
    /\ WF_vars(Tick /\ Plain)
    /\ SF_vars(Lock(Sweeper) /\ Plain)
    /\ WF_vars(Sweep /\ Plain)
    /\ \A t \in Callers : WF_vars(RunFair(t) /\ Plain)

SpecFair == Init /\ [][NextFair]_vars /\ Fairness

\* ================================================================ claims
\* The spec's words: an entry is expired when expiry <= now, live otherwise.
SpecExpired(m, k, t) == k \in DOMAIN m /\ m[k].expiry <= t
SpecLive(m, k, t) == k \in DOMAIN m /\ m[k].expiry > t

AlreadyExists(k) == [kind |-> "already exists", key |-> k]
NotFound(k) == [kind |-> "doesn't exist", key |-> k]
Expired(k) == [kind |-> "is expired", key |-> k]

\* Every key but k keeps its entry, or its absence, over the step.
OthersUnchanged(k) ==
    \A j \in Keys \ {k} :
        /\ (j \in DOMAIN items') = (j \in DOMAIN items)
        /\ j \in DOMAIN items => items'[j] = items[j]

\* The step is the named operation, with the arguments last' records.
GetStep == last'.op = "Get" /\ DoGet(last'.key)
PopStep == last'.op = "Pop" /\ DoPop(last'.key)
AddStep == last'.op = "Add" /\ DoAdd(last'.key, last'.val, last'.ttl)
ReplaceStep == last'.op = "Replace" /\ DoReplace(last'.key, last'.val, last'.ttl)

\* C1: neither Get nor Pop returns found = true for a key whose stored entry
\* has expiry <= now, even while the entry is still in the store.
C1_ExpiredNeverFound ==
    [][((GetStep \/ PopStep) /\ SpecExpired(items, last'.key, now))
        => ~last'.found]_vars

\* C2: for every ttl <= 0, Set(k, v, ttl) followed at once by Get(k), with no
\* other operation and no clock advance between them, returns not-found.
C2_NonPositiveTtlNotFound ==
    [][(/\ GetStep
        /\ last.op = "Set" /\ last.key = last'.key /\ last.ttl <= 0
        /\ last.at = now)
        => ~last'.found]_vars

\* C3: for every ttl > 0, Get(k) right after Set(k, v, ttl) returns (v, true),
\* and Get(k) once the clock has advanced by more than ttl since that Set, with
\* no write to k since, returns not-found, swept or not.
C3_LivenessWindow ==
    [][GetStep =>
        LET k == last'.key IN
        /\ (last.op = "Set" /\ last.key = k /\ last.ttl > 0 /\ last.at = now)
           => (last'.found /\ last'.value = last.val)
        /\ (lastSet[k] # NoSet /\ lastSet[k].ttl > 0
                /\ now > lastSet[k].at + lastSet[k].ttl)
           => ~last'.found]_vars

\* A Get that came more than ttl after the Set of its key (ttl > 0) and found
\* nothing.
C3_Witness ==
    /\ last.op = "Get" /\ ~last.found
    /\ lastSet[last.key] # NoSet /\ lastSet[last.key].ttl > 0
    /\ last.at > lastSet[last.key].at + lastSet[last.key].ttl

\* C4: every operation and every sweeper tick takes the lock once and has
\* released it when it returns; no goroutine waits for the lock it holds
\* itself, so whoever holds the lock can run on and unlock.
C4_NoSelfDeadlock ==
    /\ \A t \in Threads : pc[t] = "lock" => mu # t
    /\ \A t \in Threads : pc[t] \in {"idle", "tick"} => mu # t
    /\ mu # 0 => pc[mu] = "body"

\* C5: Add on a key whose entry is live fails with AlreadyExists naming the
\* key and changes nothing in the store.
C5_AddOnLiveFails ==
    [][(AddStep /\ SpecLive(items, last'.key, now))
        => (last'.err = AlreadyExists(last'.key) /\ items' = items)]_vars

\* An Add that has just failed on an entry that is live and holds another value.
C5_Witness ==
    /\ last.op = "Add" /\ last.err = AlreadyExists(last.key) /\ last.at = now
    /\ SpecLive(items, last.key, now)
    /\ items[last.key].value # last.val

\* C6: Add succeeds exactly when the key has no entry or an expired one; on
\* success the store holds (v2, now + ttl), now being the clock when it
\* writes, and for ttl > 0 a Get right after returns (v2, true).
C6_AddSucceedsIffAbsentOrExpired ==
    [][/\ AddStep =>
            LET k == last'.key IN
            /\ (last'.err = NoErr)
                = (k \notin DOMAIN items \/ SpecExpired(items, k, now))
            /\ last'.err = NoErr =>
                    /\ k \in DOMAIN items'
                    /\ items'[k] = [value |-> last'.val, expiry |-> now' + last'.ttl]
       /\ (/\ GetStep
           /\ last.op = "Add" /\ last.key = last'.key /\ last.err = NoErr
           /\ last.ttl > 0 /\ last.at = now)
          => (last'.found /\ last'.value = last.val)]_vars

\* C7: Replace fails with NotFound on a key without entry and changes nothing;
\* it fails with Expired on an expired entry, which it removes, writing nothing;
\* no other key changes in either case.
C7_ReplaceFailures ==
    [][ReplaceStep =>
        LET k == last'.key IN
        /\ k \notin DOMAIN items => (last'.err = NotFound(k) /\ items' = items)
        /\ SpecExpired(items, k, now) =>
                /\ last'.err = Expired(k)
                /\ k \notin DOMAIN items'
                /\ OthersUnchanged(k)]_vars

\* C8: Replace on a live entry succeeds and stores (v, now + ttl), now being
\* the clock when it writes, so that a Get right after returns (v, true) while
\* the new expiry is ahead; Replace succeeds in no other case.
C8_ReplaceOnLive ==
    [][/\ ReplaceStep =>
            LET k == last'.key IN
            /\ SpecLive(items, k, now) =>
                    /\ last'.err = NoErr
                    /\ k \in DOMAIN items'
                    /\ items'[k] = [value |-> last'.val, expiry |-> now' + last'.ttl]
                    /\ OthersUnchanged(k)
            /\ last'.err = NoErr => SpecLive(items, k, now)
       /\ (/\ GetStep
           /\ last.op = "Replace" /\ last.key = last'.key /\ last.err = NoErr
           /\ now < last.at + last.ttl)
          => (last'.found /\ last'.value = last.val)]_vars

\* C9: after Pop(k) the key is absent whatever Pop returned, so that a Get or
\* Pop of an absent key finds nothing; Pop returns found = true, with the
\* stored value, exactly when the entry was live.
C9_PopRemoves ==
    [][/\ PopStep =>
            LET k == last'.key IN
            /\ k \notin DOMAIN items'
            /\ last'.found = SpecLive(items, k, now)
            /\ last'.found => last'.value = items[k].value
       /\ ((GetStep \/ PopStep) /\ last'.key \notin DOMAIN items)
          => ~last'.found]_vars

\* C10: a Get or Pop that returns found = false for an entry that is in the
\* store but expired returns the zero value, not the dead stored value.
C10_DeadValueNotSurfaced ==
    [][((GetStep \/ PopStep) /\ SpecExpired(items, last'.key, now)
            /\ ~last'.found)
        => last'.value = Zero]_vars

SetStep == last'.op = "Set" /\ DoSet(last'.key, last'.val, last'.ttl)
RemoveStep == last'.op = "Remove" /\ DoRemove(last'.key)
RemoveExpiredStep == last'.op = "RemoveExpired" /\ DoRemoveExpired
ClearStep == last'.op = "Clear" /\ DoClear

\* A key without entry gets one only by a Set or Add of that key, and until
\* then a Get of it finds nothing.
AbsentUntilWritten ==
    /\ \A k \in Keys :
        (k \notin DOMAIN items /\ k \in DOMAIN items')
        => (last'.op \in {"Set", "Add"} /\ last'.key = k /\ last'.err = NoErr)
    /\ (GetStep /\ last'.key \notin DOMAIN items)
       => (~last'.found /\ items' = items)

\* C11: Get on a live entry returns the stored value with found = true and
\* leaves the whole store as it was; no Get ever changes the expiry of an
\* entry it leaves in the store, so Gets never postpone the expiry of a key.
C11_GetLeavesStore ==
    [][GetStep =>
        LET k == last'.key IN
        /\ SpecLive(items, k, now) =>
                /\ last'.found /\ last'.value = items[k].value
                /\ items' = items
        /\ k \in DOMAIN items' => (k \in DOMAIN items /\ items'[k] = items[k])
        /\ OthersUnchanged(k)]_vars

\* A Get that has just found a live entry, which is still in the store.
C11_Witness ==
    /\ last.op = "Get" /\ last.found /\ last.at = now
    /\ SpecLive(items, last.key, now)
    /\ last.value = items[last.key].value

\* C12: RemoveExpired deletes every entry that is expired when its scan starts
\* (expiry <= now), deletes no entry that is live when its scan ends, and
\* leaves every entry it keeps with value and expiry; a Get of a key that was
\* expired then finds nothing, a Get of a live one its value.
C12_RemoveExpiredSelective ==
    [][/\ RemoveExpiredStep =>
            /\ \A k \in DOMAIN items :
                /\ SpecExpired(items, k, now) => k \notin DOMAIN items'
                /\ SpecLive(items, k, now') => k \in DOMAIN items'
            /\ \A k \in DOMAIN items' : k \in DOMAIN items /\ items'[k] = items[k]
       /\ (GetStep /\ last.op = "RemoveExpired" /\ last.at = now) =>
            /\ ~SpecLive(items, last'.key, now) => ~last'.found
            /\ SpecLive(items, last'.key, now) =>
                    (last'.found /\ last'.value = items[last'.key].value)]_vars

\* C13: Clear leaves the store empty whatever the liveness of its entries, and
\* a Get of any key finds nothing until the key is written again.
C13_ClearTotal ==
    [][/\ ClearStep => DOMAIN items' = {}
       /\ AbsentUntilWritten]_vars

\* A Clear has just emptied a store in which a key set before was still live.
C13_Witness ==
    /\ last.op = "Clear" /\ last.at = now /\ DOMAIN items = {}
    /\ \E k \in Keys :
        lastSet[k] # NoSet /\ lastSet[k].at + lastSet[k].ttl > now

\* C16: Set always succeeds and leaves, whatever the key held before, one entry
\* for the key with value v and expiry now + ttl, every other key as it was.
C16_SetOverwrites ==
    [][SetStep =>
        LET k == last'.key IN
        /\ last'.err = NoErr
        /\ k \in DOMAIN items'
        /\ items'[k] = [value |-> last'.val, expiry |-> now + last'.ttl]
        /\ OthersUnchanged(k)]_vars

\* A Set has just overwritten nothing but its key: the other key holds an entry.
C16_Witness ==
    /\ last.op = "Set" /\ last.at = now /\ last.ttl # 0
    /\ items[last.key] = [value |-> last.val, expiry |-> now + last.ttl]
    /\ DOMAIN items = Keys

\* C17: Remove deletes the entry of its key, live or expired, does nothing when
\* there is none and changes no other key; a Get of the key then finds nothing
\* until the key is written again.
C17_RemoveDeletes ==
    [][/\ RemoveStep =>
            LET k == last'.key IN
            /\ k \notin DOMAIN items'
            /\ OthersUnchanged(k)
            /\ k \notin DOMAIN items => items' = items
       /\ AbsentUntilWritten]_vars

\* A Remove has just deleted an entry that was still live; the other key stays.
C17_Witness ==
    /\ last.op = "Remove" /\ last.at = now /\ last.key \notin DOMAIN items
    /\ lastSet[last.key] # NoSet
    /\ lastSet[last.key].at + lastSet[last.key].ttl > now
    /\ DOMAIN items # {}

\* C18: from the same store and the same clock readings a sweeper tick and
\* RemoveExpired leave the same store, and a tick changes nothing but the
\* store, the clock apart, which its scan has read: the sweeper keeps no
\* state of its own from tick to tick.
C18_SweepIsRemoveExpired ==
    [][/\ \A ts \in ScanReadings(items) :
            sweep(items, ts).items = RemoveExpired(items, ts).items
       /\ (UNCHANGED <<last, lastSet>> /\ SweepTick) =>
            /\ \E ts \in ScanReadings(items) :
                /\ items' = RemoveExpired(items, ts).items
                /\ now' = Latest(items, ts)
            /\ UNCHANGED <<last, lastSet, mu, pc, call>>]_vars

\* A store on which the two have work to do: an expired entry and a live one.
C18_Witness ==
    /\ expiredKeys(items, Once(now).each) # {}
    /\ expiredKeys(items, Once(now).each) # DOMAIN items

\* C19: the map is read and written only under the lock: at most one of the
\* callers and the sweeper is between its Lock and its Unlock, it is the one
\* the mutex records, and every step that changes the map is a step of it.
C19_AccessUnderLock ==
    [][/\ Cardinality({t \in Threads : pc[t] = "body"}) <= 1
       /\ \A t \in Threads : pc[t] = "body" => mu = t
       /\ items' # items => \E t \in Threads : pc[t] = "body" /\ mu = t]_vars

\* One goroutine is inside its critical section about to change the map while
\* another one waits at c.mu.Lock().
C19_Witness ==
    \E t \in Callers, u \in Threads :
        /\ pc[t] = "body" /\ mu = t /\ pc[u] = "lock"
        /\ Body(call[t], items, Once(now)).items # items

\* C14: for any interleaving of concurrent Set, Get and Remove calls, once
\* every call has returned, each key that was Set and was never the target of
\* a Remove is retrievable with the value of the last Set of it to run, while
\* the ttl of that Set has not run out.
C14_SetKeysRetrievable ==
    (\A t \in Callers : pc[t] = "idle")
    => \A k \in Keys :
        (wrote[k].set /\ ~wrote[k].removed /\ now < wrote[k].due)
        => (Get(items, k, now).found /\ Get(items, k, now).value = wrote[k].val)

\* Every call has returned; one key was Set and never the target of a Remove
\* and is within its ttl, after time has passed; the other key was Set and was
\* the target of a Remove.
C14_Witness ==
    /\ \A t \in Callers : pc[t] = "idle"
    /\ now > 1
    /\ \E k \in Keys :
        /\ wrote[k].set /\ ~wrote[k].removed /\ now < wrote[k].due
        /\ \E j \in Keys \ {k} : wrote[j].set /\ wrote[j].removed

\* C15: the operations, sweeper ticks among them, are linearizable: in the
\* order in which they read the clock inside their critical sections, what
\* each returns to its caller and the store it leaves are what the same
\* operations, each run whole and one after another in that order, return
\* and leave.
C15_Linearizable ==
    [][/\ mu' = 0 => items' = atomic'
       /\ \A t \in Callers :
            (pc[t] \in {"body", "act"} /\ pc'[t] = "idle")
            => /\ last'.op = call[t].op /\ last'.key = call[t].key
               /\ last'.value = Body(call[t], atomic, Once(now)).value
               /\ last'.found = Body(call[t], atomic, Once(now)).found
               /\ last'.err = Body(call[t], atomic, Once(now)).err]_vars

\* A Replace has just succeeded and returned, the store as the whole
\* operations leave it, while the other caller waits for the mutex with a call
\* on the same key and the sweeper waits for it with a tick.
C15_Witness ==
    /\ last.op = "Replace" /\ last.err = NoErr /\ last.at = now
    /\ last.key \in DOMAIN items /\ items[last.key].expiry = now + last.ttl
    /\ items = atomic
    /\ now > 0
    /\ \E t \in Callers : pc[t] = "lock" /\ call[t].key = last.key
    /\ pc[Sweeper] = "lock"

\* C20: for every sequence of caller operations and clock advances, Set, Add,
\* Replace, Get and Pop return the same results (value, found, error) whether
\* or not sweep ticks or RemoveExpired ran in between.
C20_SweepsInvisible ==
    last.op \in {"Set", "Add", "Replace", "Get", "Pop"}
    => /\ last.value = unswept.value
       /\ last.found = unswept.found
       /\ last.err = unswept.err

\* C20, amended: sweep ticks and RemoveExpired change neither the found flag
\* of Get and Pop, nor the value returned with found = true, nor whether Add
\* and Replace succeed. A failing Replace may return NotFound where it would
\* have returned Expired, and a Get or Pop that finds nothing may return the
\* zero value where it would have returned the dead entry's value.
C20_SweepsChangeNoSuccess ==
    last.op \in {"Set", "Add", "Replace", "Get", "Pop"}
    => /\ last.found = unswept.found
       /\ last.found => last.value = unswept.value
       /\ (last.err = NoErr) = (unswept.err = NoErr)
       /\ last.err # unswept.err
          => /\ last.op = "Replace"
             /\ last.err = NotFound(last.key)
             /\ unswept.err = Expired(last.key)
       /\ last.value # unswept.value
          => (last.op \in {"Get", "Pop"} /\ ~last.found /\ last.value = Zero)

\* A Replace has just failed with NotFound on a key that was Set before, and
\* the swept cache has lost entries the unswept one still holds.
C20_Witness ==
    /\ last.op = "Replace" /\ last.err = NotFound(last.key) /\ last.at = now
    /\ lastSet[last.key] # NoSet
    /\ DOMAIN unswept.items # DOMAIN items

\* The entries a caller of SpecFair can have stored that expire before the
\* clock stops.
PassingEntries == [value : LockValues, expiry : 0 .. (MaxTime - 1)]

\* C21: under fairness of the sweeper (ticks keep occurring, each gets the
\* mutex in the end), every entry that has expired (expiry <= now) is
\* eventually out of the store or overwritten, even when no caller touches
\* its key again. The clock of the model stops at MaxTime, so the entries are
\* those whose expiry the clock can pass.
C21_ExpiredEventuallyPurged ==
    \A k \in Keys : \A e \in PassingEntries :
        (k \in DOMAIN items /\ items[k] = e /\ e.expiry <= now)
        ~> (k \notin DOMAIN items \/ items[k] # e)

\* The sweeper is inside its critical section, about to collect an expired
\* entry, while both callers wait for the mutex with calls on the other key.
C21_Witness ==
    \E k \in Keys :
        /\ pc[Sweeper] = "body" /\ mu = Sweeper
        /\ k \in expiredKeys(items, Once(now).each)
        /\ \A t \in Callers : pc[t] = "lock" /\ call[t].key # k

\* Both callers have called Add on key k, which had no entry or an expired one
\* (expiry <= now) when each called, both have returned, and the clock has
\* reached the expiry of no entry an Add of them stored: not when the other
\* returned, not now.
AddRace(k) ==
    /\ \A t \in Callers :
        ret[t].called /\ ret[t].key = k /\ ret[t].free /\ ret[t].done
    /\ \A w \in Callers :
        ret[w].err = NoErr
        => /\ now < ret[w].at + ret[w].ttl
           /\ \A t \in Callers : ret[t].at < ret[w].at + ret[w].ttl

\* C22: when several callers concurrently call Add with ttl > 0 on one key
\* that is absent or expired, and the clock does not pass the new expiry and
\* nothing else touches the key, exactly one Add succeeds, the others fail
\* with AlreadyExists, and the store holds the value of the one that
\* succeeded.
C22_OneAddWins ==
    \A k \in Keys :
        AddRace(k)
        => \E w \in Callers :
            /\ ret[w].err = NoErr
            /\ \A t \in Callers \ {w} : ret[t].err = AlreadyExists(k)
            /\ k \in DOMAIN items /\ items[k].value = ret[w].val

====
